---- MODULE Spec2Model ----
(***************************************************************************)
(* The batch-simulation loop of src/src/utils.py: run_simulation builds    *)
(* the batch schedule, warm-starts every policy on a shared random batch   *)
(* and then calls simulate_rounds once per policy for every later batch.   *)
(*                                                                         *)
(* Rows of X and y are numbered from 0 as in the code; TLA+ sequences are  *)
(* 1-based, so the Python list element ns[j] is ns[j + 1] here and the     *)
(* action chosen for row r is stored at position r + 1 of a history.       *)
(*                                                                         *)
(* The policies and the numpy generator are library code.  The generator   *)
(* is modelled as a deterministic generator with an integer state, a       *)
(* policy as an object whose predict is a function of what it was last     *)
(* fitted on, of the rows asked for and of the generator.  The clock read  *)
(* by pd.Timestamp.now() advances by a nondeterministic amount.            *)
(***************************************************************************)
EXTENDS Integers, Sequences, FiniteSets, TLC

VARIABLES
    total_rows,   \* len(X) = y.shape[0]
    nchoices,     \* y.shape[1]
    ypat,         \* which label matrix y is
    min_batch,    \* parameter min_batch
    pctNum,       \* incr_batch_pct = pctNum / PctDen
    seed0,        \* the seed the caller gives the global generator before a run
    kindOf,       \* model_dict: policy name -> the kind of policy object
    pc,           \* where run_simulation is: "sched", "warm", "sim", "done", "error"
    err,          \* the exception that ended the run, "" if none
    n,            \* local n of run_simulation
    incrs,        \* local incrs
    ns,           \* local ns
    i,            \* loop variable i of the simulation loop (Python index into ns)
    kpos,         \* position of the inner loop in model_dict's iteration order
    action_dict,  \* local action_dict: policy -> action history
    model,        \* the policy objects' fitted state
    reward_dict,  \* caller's reward logs
    ttime_dict,   \* caller's timing logs
    rng,          \* state of numpy's global generator
    clock,        \* what pd.Timestamp.now() returns next
    run,          \* 1 for the first call of run_simulation, 2 for the second
    ref           \* what the first call left behind

inputs == <<total_rows, nchoices, ypat, min_batch, pctNum, seed0, kindOf>>
heap   == <<model, reward_dict, ttime_dict>>
vars   == <<total_rows, nchoices, ypat, min_batch, pctNum, seed0, kindOf,
            pc, err, n, incrs, ns, i, kpos, action_dict,
            model, reward_dict, ttime_dict, rng, clock, run, ref>>

----------------------------------------------------------------------------
(* Bounds of the model *)

MaxRows == 4          \* simulation: total_rows in 0..MaxRows
MaxMinBatch == 2      \* simulation: min_batch in 1..MaxMinBatch
MaxPctNum == 2        \* simulation: incr_batch_pct in {0, 1/2, .., MaxPctNum/2}
MaxSeed == 2          \* caller seeds 1..MaxSeed
SchedMaxRows == 10    \* schedule only: total_rows in 0..SchedMaxRows
SchedMaxMinBatch == 4 \* schedule only: min_batch in -1..SchedMaxMinBatch
SchedMaxPctNum == 3   \* schedule only: incr_batch_pct in {-1/2, .., SchedMaxPctNum/2}
MaxNs == 13           \* cap on len(ns), reached only when the loop does not end

(* Program constants *)

random_seed == 23
Uint8Mod == 256       \* astype('uint8')

PctDen == 2           \* fractions k/2 are exact in binary floating point
SmallChoices == 3

Policies == {"p1", "p2"}
PolicyOrder == <<"p1", "p2">>
Kinds == {"rand", "wild"}
Ticks == {1, 2}       \* clock units a simulate_rounds call may take

----------------------------------------------------------------------------
(* Helpers *)

Max(a, b) == IF a >= b THEN a ELSE b

RECURSIVE SumSeq(_)
SumSeq(s) == IF s = <<>> THEN 0 ELSE Head(s) + SumSeq(Tail(s))

\* Python int(): truncation toward zero of num / den, den > 0
Trunc(num, den) == IF num >= 0 THEN num \div den ELSE -((-num) \div den)

\* y[row, a] of the binary label matrix
Y(row, a) == IF (row + a + ypat) % 2 = 0 THEN 1 ELSE 0

\* The generator: np.random.seed(v) and one step of the generator
SeedState(v) == (v * 31 + 7) % 1021
NextRng(s) == (s * 17 + 5) % 1021

RECURSIVE RngAfter(_, _)
RngAfter(s, j) == IF j = 0 THEN s ELSE RngAfter(NextRng(s), j - 1)

\* np.random.randint(nchoices, size=size) from generator state s
RandInt(s, size) == [j \in 1..size |-> RngAfter(s, j) % nchoices]

----------------------------------------------------------------------------
(* The policy objects (library code behind model.predict and model.fit) *)

\* A policy before its first fit
Unfitted == [X |-> 0, a |-> <<>>, r |-> <<>>, fits |-> 0, noise |-> 0]

\* What a "wild" policy may answer: valid actions, and indices that are not
\* valid actions of a small label matrix (nchoices, 257, -1)
WildVals == <<0, 1, nchoices, Uint8Mod + 1, -1, 2>>

\* model.predict(X[batch_st:batch_end, :]) with the generator in state s: one
\* answer per row, a function of the rows, of what the policy was last fitted
\* on and of the generator
Predict(kind, mdl, batch_st, batch_end, s) ==
    [j \in 1..(batch_end - batch_st) |->
        LET v == RngAfter(s, j) + SumSeq(mdl.r) + mdl.fits + mdl.noise
        IN  IF kind = "rand" THEN v % nchoices ELSE WildVals[(v % 6) + 1]]

\* model.fit(X, a, r) with the generator in state s: the policy remembers what
\* it was fitted on; a stochastic fit takes one number from the generator
Fit(mdl, rows, a, r, s) ==
    [X |-> rows, a |-> a, r |-> r, fits |-> mdl.fits + 1, noise |-> NextRng(s) % 2]

----------------------------------------------------------------------------
(* run_simulation, lines 36-47: the batch schedule *)

\* Incr with a fault: the growth is added to min_batch instead of compared with it
IncrSum(m) == min_batch + Trunc(pctNum * m, PctDen)

\* max(min_batch, int(incr_batch_pct*n))
Incr(m) == Max(min_batch, Trunc(pctNum * m, PctDen))

\* Clip with a fault: the last interval is not truncated
ClipNone(m, incr) == incr

\* if n+incr>len(X): incr = len(X)-n
Clip(m, incr) == IF m + incr > total_rows THEN total_rows - m ELSE incr

\* one iteration of `while n<len(X)`
SchedStep ==
    /\ pc = "sched"
    /\ n < total_rows
    /\ Len(ns) < MaxNs
    /\ LET incr == Clip(n, Incr(n))
       IN  /\ incrs' = Append(incrs, incr)
           /\ n' = n + incr
           /\ ns' = Append(ns, n + incr)
    /\ UNCHANGED <<inputs, pc, err, i, kpos, action_dict, heap, rng, clock, run, ref>>

\* the loop condition fails: control reaches line 49
SchedExit ==
    /\ pc = "sched"
    /\ ~(n < total_rows)
    /\ pc' = "warm"
    /\ UNCHANGED <<inputs, err, n, incrs, ns, i, kpos, action_dict, heap, rng, clock, run, ref>>

----------------------------------------------------------------------------
(* run_simulation, lines 52-62: the warm start *)

\* y[np.arange(size), actions]: one reward per row 0..size-1
RewardsOf(actions) == [j \in 1..Len(actions) |-> Y(j - 1, actions[j])]

\* the models are fitted in model_dict's order, each taking from the generator
\* what the ones before it left
RECURSIVE FitAll(_, _, _, _, _)
FitAll(pos, mdls, a, r, s) ==
    IF pos > Len(PolicyOrder) THEN mdls
    ELSE LET k == PolicyOrder[pos]
         IN  FitAll(pos + 1,
                    [mdls EXCEPT ![k] = Fit(mdls[k], Len(a), a, r, s)],
                    a, r, NextRng(s))

\* lines 52-62 when y has the min_batch rows the reward lookup reads
WarmStart ==
    /\ pc = "warm"
    /\ min_batch >= 0
    /\ min_batch <= total_rows
    /\ LET action_chosen == RandInt(rng, min_batch)
           rewards_received == RewardsOf(action_chosen)
           s == RngAfter(rng, min_batch)
       IN  /\ model' = FitAll(1, model, action_chosen, rewards_received, s)
           /\ rng' = RngAfter(s, Len(PolicyOrder))
           /\ action_dict' = [k \in Policies |-> action_chosen]
    /\ i' = 2
    /\ kpos' = 1
    /\ pc' = "sim"
    /\ UNCHANGED <<inputs, err, n, incrs, ns, reward_dict, ttime_dict, clock, run, ref>>

\* line 54 raises ValueError for a negative size; line 55 raises IndexError
\* when min_batch exceeds the rows of y
WarmStartRaises ==
    /\ pc = "warm"
    /\ (min_batch < 0 \/ min_batch > total_rows)
    /\ pc' = "error"
    /\ err' = IF min_batch < 0 THEN "ValueError" ELSE "IndexError"
    /\ rng' = IF min_batch < 0 THEN rng ELSE RngAfter(rng, min_batch)
    /\ UNCHANGED <<inputs, n, incrs, ns, i, kpos, action_dict, heap, clock, run, ref>>

----------------------------------------------------------------------------
(* simulate_rounds, lines 8-30 *)

\* PredictSeed with a fault: the generator is seeded with the timestamp `start`
PredictSeedClock(batch_st, start) == start

\* line 11: np.random.seed(batch_st); start is the timestamp of line 9
PredictSeed(batch_st, start) == batch_st

\* line 14: .astype('uint8') of an integer array wraps modulo 256
AsUint8(raw) == [j \in DOMAIN raw |-> raw[j] % Uint8Mod]

\* line 14: actions_this_batch
ActionsThisBatch(k, batch_st, batch_end, start) ==
    AsUint8(Predict(kindOf[k], model[k], batch_st, batch_end,
                    SeedState(PredictSeed(batch_st, start))))

\* line 17: the index lookup raises IndexError for an action >= y.shape[1]
LookupRaises(acts) == \E j \in DOMAIN acts : acts[j] >= nchoices

\* BatchReward with a fault: the rows are counted from 0, not from batch_st
BatchRewardFromZero(batch_st, acts) ==
    SumSeq([j \in DOMAIN acts |-> Y(j - 1, acts[j])])

\* line 17: y_global[np.arange(batch_st, batch_end), actions_this_batch].sum()
BatchReward(batch_st, acts) ==
    SumSeq([j \in DOMAIN acts |-> Y(batch_st + j - 1, acts[j])])

\* NewActionsHist with a fault: the history is replaced by the batch's actions
NewActionsHistLatest(actions_hist, acts) == acts

\* line 20: np.append(actions_hist, actions_this_batch)
NewActionsHist(actions_hist, acts) == actions_hist \o acts

\* Refit with a fault: the policy is refitted on the latest batch only
RefitLatest(mdl, batch_end, new_actions_hist) ==
    LET latest == SubSeq(new_actions_hist, mdl.X + 1, batch_end)
    IN  Fit(mdl, batch_end - mdl.X, latest,
            [j \in 1..Len(latest) |-> Y(mdl.X + j - 1, latest[j])],
            SeedState(random_seed))

\* lines 25-26: model.fit(X_global[:batch_end, :], new_actions_hist,
\* y_global[np.arange(batch_end), new_actions_hist], warm_start = True)
Refit(mdl, batch_end, new_actions_hist) ==
    Fit(mdl, batch_end, new_actions_hist, RewardsOf(new_actions_hist),
        SeedState(random_seed))

\* AssignHistory with a fault: the new history is stored for every policy
AssignHistoryAll(dict, k, hist) == [q \in DOMAIN dict |-> hist]

\* line 70: action_dict[k] = simulate_rounds(...)
AssignHistory(dict, k, hist) == [dict EXCEPT ![k] = hist]

\* the policy and the batch of the call the simulation loop makes next
CurPolicy == PolicyOrder[kpos]
BatchSt == ns[i]         \* ns[i-1] of the code
BatchEnd == ns[i + 1]    \* ns[i] of the code
InLoop == pc = "sim" /\ i < Len(ns)

\* lines 65-75: the loops move on to the next policy, then to the next batch
Advance ==
    IF kpos < Len(PolicyOrder)
    THEN kpos' = kpos + 1 /\ i' = i
    ELSE kpos' = 1 /\ i' = i + 1

\* one call of simulate_rounds that returns, and the assignment of line 70
SimulateRounds ==
    /\ InLoop
    /\ \E d \in Ticks :
        LET k == CurPolicy
            acts == ActionsThisBatch(k, BatchSt, BatchEnd, clock)
            hist == NewActionsHist(action_dict[k], acts)
        IN  /\ ~LookupRaises(acts)
            /\ reward_dict' = [reward_dict EXCEPT
                                 ![k] = Append(@, BatchReward(BatchSt, acts))]
            /\ model' = [model EXCEPT ![k] = Refit(@, BatchEnd, hist)]
            /\ rng' = NextRng(SeedState(random_seed))
            /\ ttime_dict' = [ttime_dict EXCEPT ![k] = Append(@, d)]
            /\ clock' = clock + d
            /\ action_dict' = AssignHistory(action_dict, k, hist)
    /\ Advance
    /\ UNCHANGED <<inputs, pc, err, n, incrs, ns, run, ref>>

\* line 17 raises IndexError: nothing was appended, run_simulation ends
SimulateIndexError ==
    /\ InLoop
    /\ LET acts == ActionsThisBatch(CurPolicy, BatchSt, BatchEnd, clock)
       IN  /\ LookupRaises(acts)
           /\ rng' = RngAfter(SeedState(PredictSeed(BatchSt, clock)), Len(acts))
    /\ pc' = "error"
    /\ err' = "IndexError"
    /\ clock' = clock + 1
    /\ UNCHANGED <<inputs, n, incrs, ns, i, kpos, action_dict, heap, run, ref>>

\* model.predict raises at line 14 (a fault injected into the second run)
PredictRaises ==
    /\ InLoop
    /\ run = 2
    /\ pc' = "error"
    /\ err' = "PredictFault"
    /\ rng' = SeedState(PredictSeed(BatchSt, clock))
    /\ clock' = clock + 1
    /\ UNCHANGED <<inputs, n, incrs, ns, i, kpos, action_dict, heap, run, ref>>

\* model.fit raises at line 25 (a fault injected into the second run): the
\* reward of line 17 is already in the log
FitRaises ==
    /\ InLoop
    /\ run = 2
    /\ LET k == CurPolicy
           acts == ActionsThisBatch(k, BatchSt, BatchEnd, clock)
       IN  /\ ~LookupRaises(acts)
           /\ reward_dict' = [reward_dict EXCEPT
                                ![k] = Append(@, BatchReward(BatchSt, acts))]
    /\ pc' = "error"
    /\ err' = "FitFault"
    /\ rng' = SeedState(random_seed)
    /\ clock' = clock + 1
    /\ UNCHANGED <<inputs, n, incrs, ns, i, kpos, action_dict, model, ttime_dict,
                   run, ref>>

\* line 77: the loop is over
Return ==
    /\ pc = "sim"
    /\ ~(i < Len(ns))
    /\ pc' = "done"
    /\ UNCHANGED <<inputs, err, n, incrs, ns, i, kpos, action_dict, heap, rng,
                   clock, run, ref>>

----------------------------------------------------------------------------
(* The caller: two consecutive runs on the same inputs *)

NoRef == [pc |-> "none", err |-> "", rewards |-> [k \in Policies |-> <<>>],
          actions |-> [k \in Policies |-> <<>>], ns |-> <<>>]

\* what a call of run_simulation starts from: fresh policies, empty logs, the
\* generator seeded by the caller
FreshCall ==
    /\ pc = "sched"
    /\ err = ""
    /\ n = 0
    /\ incrs = <<>>
    /\ ns = <<0>>
    /\ i = 2
    /\ kpos = 1
    /\ action_dict = [k \in Policies |-> <<>>]
    /\ model = [k \in Policies |-> Unfitted]
    /\ reward_dict = [k \in Policies |-> <<>>]
    /\ ttime_dict = [k \in Policies |-> <<>>]
    /\ rng = SeedState(seed0)

\* the first run is over; the caller keeps its results and runs again
Rerun ==
    /\ run = 1
    /\ pc \in {"done", "error"}
    /\ ref' = [pc |-> pc, err |-> err, rewards |-> reward_dict,
               actions |-> action_dict, ns |-> ns]
    /\ run' = 2
    /\ pc' = "sched"
    /\ err' = ""
    /\ n' = 0
    /\ incrs' = <<>>
    /\ ns' = <<0>>
    /\ i' = 2
    /\ kpos' = 1
    /\ action_dict' = [k \in Policies |-> <<>>]
    /\ model' = [k \in Policies |-> Unfitted]
    /\ reward_dict' = [k \in Policies |-> <<>>]
    /\ ttime_dict' = [k \in Policies |-> <<>>]
    /\ rng' = SeedState(seed0)
    /\ UNCHANGED <<inputs, clock>>

Init ==
    /\ total_rows \in 0..MaxRows
    /\ nchoices \in {SmallChoices, Uint8Mod + 2}
    /\ ypat \in 0..1
    /\ min_batch \in 1..MaxMinBatch
    /\ pctNum \in 0..MaxPctNum
    /\ seed0 \in 1..MaxSeed
    /\ kindOf \in [Policies -> Kinds]
    /\ FreshCall
    /\ clock = 0
    /\ run = 1
    /\ ref = NoRef

Next ==
    \/ SchedStep
    \/ SchedExit
    \/ WarmStart
    \/ WarmStartRaises
    \/ SimulateRounds
    \/ SimulateIndexError
    \/ PredictRaises
    \/ FitRaises
    \/ Return
    \/ Rerun

Spec == Init /\ [][Next]_vars

(* The schedule and the warm start alone, for every parameter including the
   malformed ones *)

InitSched ==
    /\ total_rows \in 0..SchedMaxRows
    /\ nchoices = SmallChoices
    /\ ypat = 0
    /\ min_batch \in (-1)..SchedMaxMinBatch
    /\ pctNum \in (-1)..SchedMaxPctNum
    /\ seed0 = 1
    /\ kindOf = [k \in Policies |-> "rand"]
    /\ FreshCall
    /\ clock = 0
    /\ run = 1
    /\ ref = NoRef

NextSched ==
    \/ SchedStep
    \/ SchedExit
    \/ WarmStart
    \/ WarmStartRaises

SpecSched == InitSched /\ [][NextSched]_vars

----------------------------------------------------------------------------
(* State functions the properties below are written with *)

ValidParams == min_batch >= 1 /\ pctNum >= 0

\* what model.predict returns to the call the loop makes next (before the cast)
RawNow ==
    Predict(kindOf[CurPolicy], model[CurPolicy], BatchSt, BatchEnd,
            SeedState(PredictSeed(BatchSt, clock)))

OutOfRange(raw) == \E j \in DOMAIN raw : raw[j] < 0 \/ raw[j] >= nchoices

\* the number of simulated batches the policy at position p of model_dict has
\* been through, while the simulation loop is at (i, kpos)
Processed(p) == (i - 2) + (IF p < kpos THEN 1 ELSE 0)

\* the end boundary of the last batch that policy has been through (the warm
\* start's when it has been through none)
LastEnd(p) == ns[Processed(p) + 2]

IsPrefix(s, t) == Len(s) <= Len(t) /\ SubSeq(t, 1, Len(s)) = s

\* sum of y[row, hist[row]] over the rows lo..hi-1
RECURSIVE RowSum(_, _, _)
RowSum(hist, lo, hi) ==
    IF lo >= hi THEN 0 ELSE Y(lo, hist[lo + 1]) + RowSum(hist, lo + 1, hi)

\* the shared warm-start actions of a run
WarmActions == RandInt(SeedState(seed0), min_batch)

Min(a, b) == IF a <= b THEN a ELSE b

----------------------------------------------------------------------------
(* Properties of the schedule (checked under SpecSched) *)

ScheduleBuilt == pc # "sched"

StartsAtZero == ns[1] = 0
StrictlyIncreasing == \A j \in 1..(Len(ns) - 1) : ns[j] < ns[j + 1]
EndsAtTotal == ns[Len(ns)] = total_rows
\* every row lies in exactly one interval [ns[j], ns[j+1])
CoversOnce ==
    \A row \in 0..(total_rows - 1) :
        Cardinality({j \in 1..(Len(ns) - 1) : ns[j] <= row /\ row < ns[j + 1]}) = 1

\* C1 as stated: for total_rows >= 0, min_batch >= 1, incr_batch_pct >= 0 the
\* boundaries start at 0, increase strictly and end at total_rows, so the
\* intervals partition [0, total_rows); and whenever total_rows < min_batch
\* the schedule is the single interval [0, total_rows)
C1_Original ==
    (ScheduleBuilt /\ ValidParams) =>
        /\ StartsAtZero /\ StrictlyIncreasing /\ EndsAtTotal /\ CoversOnce
        /\ (total_rows < min_batch => ns = <<0, total_rows>>)

\* C1 amended: the same, but the single interval [0, total_rows) is the
\* schedule only when 0 < total_rows < min_batch; for total_rows = 0 the
\* boundary list is [0] and the schedule has no interval at all
C1_Partition ==
    (ScheduleBuilt /\ ValidParams) =>
        /\ StartsAtZero /\ StrictlyIncreasing /\ EndsAtTotal /\ CoversOnce
        /\ ((0 < total_rows /\ total_rows < min_batch) => ns = <<0, total_rows>>)
        /\ (total_rows = 0 => ns = <<0>>)

\* a schedule of several intervals whose last one was truncated
C1_Witness ==
    /\ ScheduleBuilt /\ ValidParams
    /\ Len(ns) >= 4
    /\ incrs[Len(incrs)] < min_batch

IsExample == total_rows = 10 /\ min_batch = 4 /\ pctNum = 1

\* C7 as stated: for total_rows=10, min_batch=4, incr_batch_pct=0.5 the
\* boundaries are [0,4,6,9,10]
C7_Original ==
    (ScheduleBuilt /\ IsExample) => ns = <<0, 4, 6, 9, 10>>

\* C7 amended: for total_rows=10, min_batch=4, incr_batch_pct=0.5 the
\* boundaries are [0,4,8,10]; the first interval has size min_batch and every
\* later one has size max(min_batch, int(incr_batch_pct * rows seen so far)),
\* truncated so that it does not pass total_rows
C7_Example ==
    /\ (ScheduleBuilt /\ IsExample) => ns = <<0, 4, 8, 10>>
    /\ (ScheduleBuilt /\ ValidParams /\ total_rows >= min_batch) =>
          /\ Len(incrs) = Len(ns) - 1
          /\ ns[2] - ns[1] = min_batch
          /\ \A j \in 2..(Len(ns) - 1) :
                ns[j + 1] - ns[j] =
                    Min(Max(min_batch, (pctNum * ns[j]) \div PctDen),
                        total_rows - ns[j])

C7_Witness == ScheduleBuilt /\ IsExample /\ Len(ns) = 4

\* C9: with a non-positive min_batch or a negative incr_batch_pct the call
\* ends in an error before any policy is fitted: it never gets as far as
\* fitting a policy or simulating on a schedule it built silently
C9_FailFast ==
    ~ValidParams =>
        /\ pc \in {"sched", "warm", "error"}
        /\ \A k \in Policies : model[k].fits = 0

----------------------------------------------------------------------------
(* Properties of the simulation (checked under Spec) *)

\* C2: when run_simulation returns (reward logs empty at the call,
\* total_rows >= min_batch) every policy's reward log has one entry per
\* simulated batch, none for the warm start, and the entry of batch
\* [start, end) is the sum of y[i, a_i] over its rows, a_i being the action at
\* position i of the policy's final action history
C2_RewardLog ==
    (pc = "done" /\ total_rows >= min_batch) =>
        \A k \in Policies :
            /\ Len(reward_dict[k]) = Len(ns) - 2
            /\ \A b \in 1..(Len(ns) - 2) :
                  reward_dict[k][b] = RowSum(action_dict[k], ns[b + 1], ns[b + 2])

\* a finished run of at least two simulated batches where the policies chose
\* differently and earned something in a batch that does not start at row 0
C2_Witness ==
    /\ pc = "done"
    /\ Len(ns) >= 4
    /\ action_dict["p1"] # action_dict["p2"]
    /\ \E k \in Policies : reward_dict[k][2] > 0

\* C3: after the k-th simulated batch a policy's action history has length
\* min_batch plus the sizes of the first k batches after the warm start, which
\* is the end boundary of the last batch it processed; a history only grows,
\* and a call of simulate_rounds grows the history of its policy alone, by
\* the row count of its batch
C3_HistoryLength ==
    [][/\ (pc' \in {"sim", "done"}) =>
            \A p \in 1..Len(PolicyOrder) :
                /\ Len(action_dict'[PolicyOrder[p]]) = LastEnd(p)'
                /\ Len(action_dict'[PolicyOrder[p]]) =
                      min_batch' + SumSeq(SubSeq(incrs', 2, Processed(p)' + 1))
       /\ (run' = run) =>
            \A k \in Policies : IsPrefix(action_dict[k], action_dict'[k])
       /\ (InLoop /\ action_dict' # action_dict) =>
            \A k \in Policies :
                Len(action_dict'[k]) =
                    Len(action_dict[k])
                      + (IF k = CurPolicy THEN BatchEnd - BatchSt ELSE 0)
      ]_vars

\* the first policy is one batch ahead of the second, in the second batch
C3_Witness ==
    /\ pc = "sim" /\ i >= 3 /\ kpos = 2
    /\ Len(action_dict["p1"]) = ns[i + 1]
    /\ Len(action_dict["p2"]) = ns[i]
    /\ ns[i] > min_batch

\* C4: every refit of simulate_rounds for a batch [start, end) fits on the
\* full prefix: rows 0..end-1, an action vector of length end (the warm-start
\* actions, then every action chosen so far) and a reward vector of length
\* end whose i-th entry is y[i, action_i]
C4_FullPrefixRefit ==
    (pc \in {"sim", "done", "error"}) =>
        \A p \in 1..Len(PolicyOrder) :
            LET m == model[PolicyOrder[p]]
            IN  m.fits >= 2 =>
                  /\ m.fits = Processed(p) + 1
                  /\ m.X = LastEnd(p)
                  /\ Len(m.a) = m.X
                  /\ Len(m.r) = m.X
                  /\ SubSeq(m.a, 1, min_batch) = WarmActions
                  /\ m.a = action_dict[PolicyOrder[p]]
                  /\ \A j \in 1..m.X : m.r[j] = Y(j - 1, m.a[j])

\* a policy refitted twice, the second time on more rows than the batch has
C4_Witness ==
    /\ pc = "sim"
    /\ \E k \in Policies : model[k].fits >= 3 /\ model[k].X > min_batch + 1
    /\ BatchSt > 0

Faulted == run = 2 /\ pc = "error" /\ err \in {"PredictFault", "FitFault"}

\* ... and the first run, without the fault, returned
InjectedFault == Faulted /\ ref.pc = "done"

\* C6 as stated: when a policy's predict or fit raises, every other policy's
\* reward log and action history are what they are in the run without the fault
C6_Original ==
    InjectedFault =>
        \A q \in Policies \ {CurPolicy} :
            /\ reward_dict[q] = ref.rewards[q]
            /\ action_dict[q] = ref.actions[q]

\* C6 amended: when a policy's predict or fit raises, the run ends there, and
\* every other policy's reward log and action history are the prefix of those
\* of the run without the fault that covers the batches it had been through
\* (the policies before the failing one in model_dict's order including the
\* current batch, those after it not); and a call of simulate_rounds for one
\* policy changes no other policy's model, reward log, action history or
\* timing log
C6_AbortKeepsPrefix ==
    /\ [](Faulted =>
            \A p \in 1..Len(PolicyOrder) :
                p # kpos =>
                    /\ reward_dict[PolicyOrder[p]] =
                          SubSeq(ref.rewards[PolicyOrder[p]], 1, Processed(p))
                    /\ action_dict[PolicyOrder[p]] =
                          SubSeq(ref.actions[PolicyOrder[p]], 1, LastEnd(p)))
    /\ [][InLoop =>
            \A q \in Policies \ {CurPolicy} :
                /\ model'[q] = model[q]
                /\ reward_dict'[q] = reward_dict[q]
                /\ action_dict'[q] = action_dict[q]
                /\ ttime_dict'[q] = ttime_dict[q]]_vars

\* the second policy fails in a later batch: the first one has been through
\* that batch, and its log is shorter than in the run without the fault
C6_Witness ==
    /\ InjectedFault
    /\ kpos = 2 /\ i >= 3
    /\ Len(reward_dict["p1"]) = i - 1
    /\ Len(ref.rewards["p1"]) > Len(reward_dict["p1"])

\* C8: a prediction outside [0, action_count) makes simulate_rounds fail, with
\* nothing appended to the policy's reward log, action history or timing log
C8_OutOfRangeFails ==
    [][(InLoop /\ OutOfRange(RawNow))
         => (/\ pc' = "error"
             /\ reward_dict' = reward_dict
             /\ action_dict' = action_dict
             /\ ttime_dict' = ttime_dict)]_vars

\* C10: for every action count, an in-range prediction is used as it is: the
\* reward added to the log is looked up with it, and it is what the action
\* history and the refit receive (the cast to uint8 changes nothing)
C10_CastKeepsAction ==
    [][(InLoop /\ ~OutOfRange(RawNow)) =>
         /\ (reward_dict' # reward_dict) =>
               reward_dict'[CurPolicy] =
                   Append(reward_dict[CurPolicy],
                          RowSum(action_dict[CurPolicy] \o RawNow, BatchSt, BatchEnd))
         /\ (action_dict' # action_dict) =>
               /\ action_dict'[CurPolicy] = action_dict[CurPolicy] \o RawNow
               /\ model'[CurPolicy].a = action_dict[CurPolicy] \o RawNow
      ]_vars

====
